---- MODULE Spec2Model ----
(***************************************************************************)
(* A model of lookup_editor.LookupEditor                                   *)
(* (src/src/bin/lookup_editor/__init__.py): resolve_lookup_filename,       *)
(* get_lookup, get_kv_lookup and force_lookup_replication.                 *)
(*                                                                         *)
(* Strings that name files are modelled by their split on the path         *)
(* separator "/": "../f" is <<"..", "f">>, "f/" is <<"f", "">>, "/f" is    *)
(* <<"", "f">> and the empty string is <<"">>.  A string therefore has at  *)
(* least one component, and Python's None is the empty sequence.           *)
(* An absolute path below SPLUNK_HOME is modelled by the component Home    *)
(* followed by its components relative to SPLUNK_HOME.                     *)
(***************************************************************************)
EXTENDS Naturals, Sequences, FiniteSets, TLC

VARIABLES
    pc,        \* position of the running call: "idle", the operation's step, "done"
    args,      \* the arguments the call was made with
    entry,     \* what the lookup-table-file collaborator knows of the identity
    fs,        \* the files that exist on the file system during the call
    stat,      \* what os.path.getsize answers for the resolved file
    locals,    \* the local variables and side effects of the call
    outcome    \* how the call ended: returned value or raised exception

vars == <<pc, args, entry, fs, stat, locals, outcome>>

(***************************** bounds ***************************************)

\* Longest file name, namespace and owner argument, in "/"-separated components.
MaxLen == 2

\* Longest version token, in "/"-separated components.
MaxVersionLen == 2

\* Largest file size the size probe reports, in the unit of MAXIMUM_EDITABLE_SIZE.
MaxFileSize == 3

\* Most keys of the collection's schema document.
MaxSchemaKeys == 2

\* Most records of the collection's data document.
MaxRows == 2

\* Longest body of the replication response, in phrases.
MaxBodyLen == 2

\* The components version tokens are made of: a name, the parent directory
\* and the empty component (a leading, trailing or doubled separator).
VersionComps == {"v", "..", ""}

(***************************** strings **************************************)

None == <<>>

\* All strings of 1..n components drawn from the component set A.
Strs(A, n) == UNION {[1..k -> A] : k \in 1..n}

Last(s) == s[Len(s)]

Front(s) == SubSeq(s, 1, Len(s) - 1)

\* os.path.basename(p): what follows the last "/".
Basename(p) == <<Last(p)>>

\* s.startswith("/")
IsAbs(s) == Len(s) >= 2 /\ s[1] = ""

\* os.path.join(a, b)
PathJoin(a, b) ==
    IF IsAbs(b) THEN b
    ELSE IF Last(a) = "" THEN Front(a) \o b
    ELSE a \o b

\* os.path.join(*parts)
RECURSIVE JoinParts(_)
JoinParts(parts) ==
    IF Len(parts) = 1 THEN parts[1]
    ELSE PathJoin(JoinParts(Front(parts)), Last(parts))

\* The SPLUNK_HOME directory, as the first component of the paths below it.
Home == "$SPLUNK_HOME"

\* os.path.normpath of a path relative to SPLUNK_HOME, with the check that the
\* result has not left SPLUNK_HOME: stack holds Home and the components kept
\* so far.
RECURSIVE NormFrom(_, _)
NormFrom(comps, stack) ==
    IF comps = <<>> THEN [ok |-> TRUE, path |-> stack]
    ELSE LET c == Head(comps) IN
         IF c = "" \/ c = "." THEN NormFrom(Tail(comps), stack)
         ELSE IF c = ".." THEN
              IF Len(stack) = 1 THEN [ok |-> FALSE, path |-> None]
              ELSE NormFrom(Tail(comps), Front(stack))
         ELSE NormFrom(Tail(comps), Append(stack, c))

\* make_splunkhome_path(parts): the normalised path below SPLUNK_HOME, or
\* ValueError (ok = FALSE) when the joined path leaves SPLUNK_HOME.
MakeSplunkhomePath(parts) ==
    LET joined == JoinParts(parts) IN
    IF IsAbs(joined) THEN [ok |-> FALSE, path |-> None]
    ELSE IF joined[1] = Home THEN NormFrom(Tail(joined), <<Home>>)
    ELSE NormFrom(joined, <<Home>>)

(************************ collaborators *************************************)

\* SplunkLookupTableFile.build_id(lookup_file, namespace, owner)
BuildId(lookup_file, namespace, owner) == <<lookup_file, namespace, owner>>

KeyOf(s) == IF s = None THEN "<none>" ELSE s[1]

RECURSIVE PathKey(_)
PathKey(p) == IF p = <<>> THEN "" ELSE "/" \o Head(p) \o PathKey(Tail(p))

\* LookupBackups.get_backup_directory: one directory per identity and live path.
GetBackupDirectory(lookup_file, namespace, owner, resolved_lookup_path) ==
    <<Home, "lookup_file_backups",
      KeyOf(namespace) \o "|" \o KeyOf(owner) \o "|" \o KeyOf(lookup_file)
        \o "|" \o PathKey(resolved_lookup_path)>>

\* The live files of the file-system layout.
AppLivePath(lookup_file, namespace) ==
    MakeSplunkhomePath(<<<<"etc">>, <<"apps">>, namespace, <<"lookups">>, lookup_file>>).path

UserLivePath(lookup_file, namespace, owner) ==
    MakeSplunkhomePath(<<<<"etc">>, <<"users">>, owner, namespace, <<"lookups">>,
                         lookup_file>>).path

NotFound == [found |-> FALSE, path |-> None]

\* SplunkLookupTableFile.get(id).path: ResourceNotFound, or the live path of
\* the entry, which is the per-app file or (for an owner) the per-user file.
Entries(lookup_file, namespace, owner) ==
    {NotFound, [found |-> TRUE, path |-> AppLivePath(lookup_file, namespace)]}
    \cup (IF owner = None THEN {}
          ELSE {[found |-> TRUE, path |-> UserLivePath(lookup_file, namespace, owner)]})

(******************** resolve_lookup_filename *******************************)

\* lookup_file + ".default"
DefaultName(lookup_file) == <<lookup_file[1] \o ".default">>

UserDefault(lookup_file, namespace, owner) ==
    MakeSplunkhomePath(<<<<"etc">>, <<"users">>, owner, namespace, <<"lookups">>,
                         DefaultName(lookup_file)>>)

AppDefault(lookup_file, namespace) ==
    MakeSplunkhomePath(<<<<"etc">>, <<"apps">>, namespace, <<"lookups">>,
                         DefaultName(lookup_file)>>)

\* The chain without the test for the shared owner 'nobody'.
Branch_NoNobodyTest(owner, version) ==
    IF version # None /\ owner # None THEN "owner+version"
    ELSE IF version # None THEN "version"
    ELSE IF owner # None THEN "owner"
    ELSE "app"

\* The branch taken by the if/elif chain.
Branch(owner, version) ==
    IF version # None /\ owner # None THEN "owner+version"
    ELSE IF version # None THEN "version"
    ELSE IF owner # None /\ owner # <<"nobody">> THEN "owner"
    ELSE "app"

\* lookup_path_default of the branch taken.
LookupPathDefault(lookup_file, namespace, owner, version) ==
    IF Branch(owner, version) \in {"owner+version", "owner"}
    THEN UserDefault(lookup_file, namespace, owner)
    ELSE AppDefault(lookup_file, namespace)

\* lookup_path of the branch taken.
LookupPath(lookup_file, namespace, owner, version, resolved_lookup_path) ==
    IF version # None
    THEN MakeSplunkhomePath(<<GetBackupDirectory(lookup_file, namespace, owner,
                                                 resolved_lookup_path), version>>)
    ELSE [ok |-> TRUE, path |-> resolved_lookup_path]

\* The handler returning an empty path instead of None.
OnNotFound_EmptyPath(throw_not_found) ==
    IF throw_not_found
    THEN [kind |-> "raise", exc |-> "ResourceNotFound", value |-> None]
    ELSE [kind |-> "return", exc |-> "", value |-> <<"">>]

\* The except ResourceNotFound handler.
OnNotFound(throw_not_found) ==
    IF throw_not_found
    THEN [kind |-> "raise", exc |-> "ResourceNotFound", value |-> None]
    ELSE [kind |-> "return", exc |-> "", value |-> None]

\* The os.path.exists calls of the final condition, in order (and short-circuits).
Probes(get_default_csv, lookup_path, lookup_path_default, files) ==
    IF ~get_default_csv THEN <<>>
    ELSE IF lookup_path \in files THEN <<lookup_path>>
    ELSE <<lookup_path, lookup_path_default>>

\* The final condition without the test that the lookup path is missing.
ChoosePath_NoMissingTest(get_default_csv, lookup_path, lookup_path_default, files) ==
    IF get_default_csv /\ lookup_path_default \in files
    THEN lookup_path_default
    ELSE lookup_path

\* The final condition without the get_default_csv flag.
ChoosePath_NoFlag(get_default_csv, lookup_path, lookup_path_default, files) ==
    IF lookup_path \notin files /\ lookup_path_default \in files
    THEN lookup_path_default
    ELSE lookup_path

\* The final condition: the default template or the lookup path.
ChoosePath(get_default_csv, lookup_path, lookup_path_default, files) ==
    IF get_default_csv /\ lookup_path \notin files /\ lookup_path_default \in files
    THEN lookup_path_default
    ELSE lookup_path

\* The sanitised arguments.
Sanitize(a) ==
    [lookup_file |-> Basename(a.lookup_file),
     namespace   |-> Basename(a.namespace),
     owner       |-> IF a.owner # None THEN Basename(a.owner) ELSE None]

NoLocals ==
    [id |-> None, lookup_path |-> None, lookup_path_default |-> None,
     backup_dir |-> None, backup_calls |-> 0, probed |-> <<>>]

\* resolve_lookup_filename(a...) run against the collaborator's entry e and the
\* files that exist: the locals it computed and how it ended.
ResolveLookupFilename(a, e, files) ==
    LET s   == Sanitize(a)
        id  == BuildId(s.lookup_file, s.namespace, s.owner)
        l0  == [NoLocals EXCEPT !.id = id]
    IN
    IF ~e.found THEN [locals |-> l0, outcome |-> OnNotFound(a.throw_not_found)]
    ELSE
    LET lp == LookupPath(s.lookup_file, s.namespace, s.owner, a.version, e.path)
        dp == LookupPathDefault(s.lookup_file, s.namespace, s.owner, a.version)
        l1 == [l0 EXCEPT
                 !.backup_calls = IF a.version # None THEN 1 ELSE 0,
                 !.backup_dir = IF a.version # None
                                THEN GetBackupDirectory(s.lookup_file, s.namespace,
                                                        s.owner, e.path)
                                ELSE None]
    IN
    IF ~lp.ok \/ ~dp.ok
    THEN [locals |-> l1,
          outcome |-> [kind |-> "raise", exc |-> "ValueError", value |-> None]]
    ELSE [locals |-> [l1 EXCEPT
                        !.lookup_path = lp.path,
                        !.lookup_path_default = dp.path,
                        !.probed = Probes(a.get_default_csv, lp.path, dp.path, files)],
          outcome |-> [kind |-> "return", exc |-> "",
                       value |-> ChoosePath(a.get_default_csv, lp.path, dp.path, files)]]

\* The paths whose existence bears on a call.
Candidates(a, e) ==
    IF ~e.found THEN {}
    ELSE LET s  == Sanitize(a)
             lp == LookupPath(s.lookup_file, s.namespace, s.owner, a.version, e.path)
             dp == LookupPathDefault(s.lookup_file, s.namespace, s.owner, a.version)
         IN {e.path} \cup (IF lp.ok THEN {lp.path} ELSE {})
                     \cup (IF dp.ok THEN {dp.path} ELSE {})

NoOutcome == [kind |-> "none", exc |-> "", value |-> None]

NoStat == [error |-> TRUE, size |-> 0]

Init ==
    /\ pc = "idle"
    /\ args = [op |-> "none"]
    /\ entry = NotFound
    /\ fs = {}
    /\ stat = NoStat
    /\ locals = NoLocals
    /\ outcome = NoOutcome

\* A caller invokes resolve_lookup_filename with arguments from the given sets,
\* while the collaborator and the file system are in some state.
ResolveCallFrom(Files, Namespaces, Owners, Versions) ==
    /\ pc = "idle"
    /\ \E f \in Files, n \in Namespaces, o \in Owners, v \in Versions,
          gd \in BOOLEAN, tnf \in BOOLEAN :
         LET a == [op |-> "resolve_lookup_filename", lookup_file |-> f,
                   namespace |-> n, owner |-> o, get_default_csv |-> gd,
                   version |-> v, throw_not_found |-> tnf]
             s == Sanitize(a)
         IN /\ args' = a
            /\ \E e \in Entries(s.lookup_file, s.namespace, s.owner) :
                 /\ entry' = e
                 /\ fs' \in SUBSET Candidates(a, e)
    /\ pc' = "resolve"
    /\ UNCHANGED <<stat, locals, outcome>>

\* The body of resolve_lookup_filename.
ResolveRun ==
    /\ pc = "resolve"
    /\ LET r == ResolveLookupFilename(args, entry, fs) IN
         /\ locals' = r.locals
         /\ outcome' = r.outcome
    /\ pc' = "done"
    /\ UNCHANGED <<args, entry, fs, stat>>

Versions == {None} \cup Strs(VersionComps, MaxVersionLen)

PlainOwners == {None, <<"nobody">>, <<"u">>}

ResolveCall == ResolveCallFrom({<<"f">>}, {<<"n">>}, PlainOwners, Versions)

NextResolve == ResolveCall \/ ResolveRun

SpecResolve == Init /\ [][NextResolve]_vars

FileArgs == Strs({"f", ".."}, MaxLen)

NamespaceArgs == Strs({"n", ".."}, MaxLen)

OwnerArgs == {None} \cup Strs({"u", ".."}, MaxLen)

TraversalCall == ResolveCallFrom(FileArgs, NamespaceArgs, OwnerArgs, {None, <<"v">>})

NextTraversal == TraversalCall \/ ResolveRun

SpecTraversal == Init /\ [][NextTraversal]_vars

(***************************** get_lookup ***********************************)

\* settings.MAXIMUM_EDITABLE_SIZE, in a unit that keeps the sizes small.
MAXIMUM_EDITABLE_SIZE == 2

\* The size guard comparing with >= instead of >.
SizeGuard_AtLeast(throw_exception_if_too_big, st) ==
    IF ~throw_exception_if_too_big
    THEN [probed |-> FALSE, logged |-> FALSE, too_big |-> FALSE]
    ELSE IF st.error
    THEN [probed |-> TRUE, logged |-> TRUE, too_big |-> FALSE]
    ELSE [probed |-> TRUE, logged |-> FALSE,
          too_big |-> st.size >= MAXIMUM_EDITABLE_SIZE]

\* The size guard: os.path.getsize answers st; os.error is caught and logged,
\* LookupFileTooBigException is not an os.error and leaves the try block.
SizeGuard(throw_exception_if_too_big, st) ==
    IF ~throw_exception_if_too_big
    THEN [probed |-> FALSE, logged |-> FALSE, too_big |-> FALSE]
    ELSE IF st.error
    THEN [probed |-> TRUE, logged |-> TRUE, too_big |-> FALSE]
    ELSE [probed |-> TRUE, logged |-> FALSE,
          too_big |-> st.size > MAXIMUM_EDITABLE_SIZE]

\* codecs.open(file_path): a handle on the file, or IOError when it is missing.
OpenFile(file_path, files) ==
    IF file_path \in files
    THEN [kind |-> "return", exc |-> "", value |-> file_path]
    ELSE [kind |-> "raise", exc |-> "IOError", value |-> None]

\* get_lookup(a...): resolve_lookup_filename with throw_not_found left at its
\* default, the size guard, then the open.
GetLookup(a, e, files, st) ==
    LET r == ResolveLookupFilename(
                 [lookup_file |-> a.lookup_file, namespace |-> a.namespace,
                  owner |-> a.owner, get_default_csv |-> a.get_default_csv,
                  version |-> a.version, throw_not_found |-> TRUE], e, files)
        l0 == [resolve |-> r.locals, file_path |-> None, size_probed |-> FALSE,
               size_error_logged |-> FALSE, opened |-> None]
    IN
    IF r.outcome.kind = "raise" THEN [locals |-> l0, outcome |-> r.outcome]
    ELSE
    LET file_path == r.outcome.value
        g  == SizeGuard(a.throw_exception_if_too_big, st)
        l1 == [l0 EXCEPT !.file_path = file_path, !.size_probed = g.probed,
                         !.size_error_logged = g.logged]
    IN
    IF g.too_big
    THEN [locals |-> l1,
          outcome |-> [kind |-> "raise", exc |-> "LookupFileTooBigException",
                       value |-> st.size]]
    ELSE [locals |-> [l1 EXCEPT !.opened = file_path],
          outcome |-> OpenFile(file_path, files)]

\* What os.path.getsize can answer for a path: os.error for a missing file, a
\* size or os.error (the file cannot be examined) for one that exists.
Stats(file_path, files) ==
    {[error |-> TRUE, size |-> 0]}
    \cup (IF file_path \in files
          THEN {[error |-> FALSE, size |-> n] : n \in 0..MaxFileSize}
          ELSE {})

\* A caller invokes get_lookup.
GetLookupCall ==
    /\ pc = "idle"
    /\ \E o \in PlainOwners, v \in {None, <<"v">>}, gd \in BOOLEAN, big \in BOOLEAN :
         LET a == [op |-> "get_lookup", lookup_file |-> <<"f">>,
                   namespace |-> <<"n">>, owner |-> o, get_default_csv |-> gd,
                   version |-> v, throw_exception_if_too_big |-> big]
             s == Sanitize(a)
         IN /\ args' = a
            /\ \E e \in Entries(s.lookup_file, s.namespace, s.owner) :
                 /\ entry' = e
                 /\ \E files \in SUBSET Candidates(a, e) :
                      /\ fs' = files
                      /\ stat' \in Stats(GetLookup(a, e, files, NoStat).locals.file_path,
                                         files)
    /\ pc' = "get_lookup"
    /\ UNCHANGED <<locals, outcome>>

\* The body of get_lookup.
GetLookupRun ==
    /\ pc = "get_lookup"
    /\ LET r == GetLookup(args, entry, fs, stat) IN
         /\ locals' = r.locals
         /\ outcome' = r.outcome
    /\ pc' = "done"
    /\ UNCHANGED <<args, entry, fs, stat>>

NextGetLookup == GetLookupCall \/ GetLookupRun

SpecGetLookup == Init /\ [][NextGetLookup]_vars

(**************************** get_kv_lookup *********************************)

(* A key of the schema document and a field name are modelled by their split *)
(* on ".": "field.b.c" is <<"field", "b", "c">> and the field "b.c" is       *)
(* <<"b", "c">>.  A JSON value is a leaf holding a string or a sub-mapping   *)
(* of leaves.                                                                *)

Statuses == {200, 403, 500}

\* field.startswith('field.')
StartsWithFieldPrefix(key) == Len(key) >= 2 /\ key[1] = "field"

\* field[6:]
StripFieldPrefix(key) == Tail(key)

\* The loop over header['entry'][0]['content'] that appends to fields.
RECURSIVE AppendFields(_, _)
AppendFields(fields, keys) ==
    IF keys = <<>> THEN fields
    ELSE AppendFields(IF StartsWithFieldPrefix(Head(keys))
                      THEN Append(fields, StripFieldPrefix(Head(keys)))
                      ELSE fields,
                      Tail(keys))

\* fields = ['_key'] and the loop.
FieldList(keys) == AppendFields(<<<<"_key">>>>, keys)

Leaf(v) == [leaf |-> TRUE, v |-> v]

Node(sub) == [leaf |-> FALSE, sub |-> sub]

Range(seq) == {seq[i] : i \in DOMAIN seq}

\* The flat keys of a record: a leaf's key, or a sub-mapping's key joined
\* with the key of each leaf below it.
FlatKeys(row) ==
    {<<k>> : k \in {x \in DOMAIN row : row[x].leaf}}
    \cup UNION {{<<k, j>> : j \in DOMAIN row[k].sub} :
                k \in {x \in DOMAIN row : ~row[x].leaf}}

\* shortcuts.flatten_dict(row, fields=fields): the leaves of the record by
\* flat key, restricted to the keys of the field list.
FlattenDict(row, fields) ==
    [p \in FlatKeys(row) \cap Range(fields) |->
        IF Len(p) = 1 THEN row[p[1]].v ELSE row[p[1]].sub[p[2]].v]

\* The loop over fields that skips a field the record lacks.
RECURSIVE NewRow_SkipMissing(_, _)
NewRow_SkipMissing(flattened_row, fields) ==
    IF fields = <<>> THEN <<>>
    ELSE (IF Head(fields) \in DOMAIN flattened_row
          THEN <<flattened_row[Head(fields)]>>
          ELSE <<>>) \o NewRow_SkipMissing(flattened_row, Tail(fields))

\* The loop over fields that builds new_row.
RECURSIVE NewRow(_, _)
NewRow(flattened_row, fields) ==
    IF fields = <<>> THEN <<>>
    ELSE <<IF Head(fields) \in DOMAIN flattened_row
           THEN flattened_row[Head(fields)]
           ELSE "">> \o NewRow(flattened_row, Tail(fields))

\* The test of the row fetch's status never rejecting.
RowsRejected_Never(status) == FALSE

\* response.status == 403 after the schema fetch.
SchemaRejected(status) == status = 403

\* response.status == 403 after the row fetch.
RowsRejected(status) == status = 403

PermissionDenied ==
    [kind |-> "raise", exc |-> "PermissionDeniedException", value |-> None]

\* json.loads or the indexing of the document failing.
BadDocument == [kind |-> "raise", exc |-> "ValueError", value |-> None]

SchemaKeyPool ==
    {<<"field", "a">>, <<"field", "b", "c">>, <<"other">>, <<"fielda">>}

\* The keys of a schema document: distinct, in the document's order.
SchemaKeySeqs ==
    {ks \in UNION {[1..k -> SchemaKeyPool] : k \in 0..MaxSchemaKeys} :
        \A i, j \in DOMAIN ks : i # j => ks[i] # ks[j]}

Malformed == [ok |-> FALSE, doc |-> <<>>]

SchemaContents == {Malformed} \cup {[ok |-> TRUE, doc |-> ks] : ks \in SchemaKeySeqs}

RecordPool ==
    {[_key |-> Leaf("k1"), a |-> Leaf("1")],
     [_key |-> Leaf("k2"), b |-> Node([c |-> Leaf("2"), d |-> Leaf("3")])],
     [a |-> Leaf("4"), x |-> Leaf("9")],
     [b |-> Leaf("5")]}

RowsContents ==
    {Malformed}
    \cup {[ok |-> TRUE, doc |-> rs] :
            rs \in UNION {[1..k -> RecordPool] : k \in 0..MaxRows}}

NoKvLocals ==
    [owner |-> None, requests |-> <<>>, fields |-> <<>>, lookup_contents |-> <<>>,
     records |-> <<>>, rows |-> <<>>]

\* A caller invokes get_kv_lookup; a missing owner becomes 'nobody'.
KvCall ==
    /\ pc = "idle"
    /\ \E o \in {None, <<"u">>} :
         /\ args' = [op |-> "get_kv_lookup", lookup_file |-> <<"c">>,
                     namespace |-> <<"n">>, owner |-> o]
         /\ locals' = [NoKvLocals EXCEPT
                         !.owner = IF o = None THEN <<"nobody">> ELSE o]
    /\ pc' = "kv_schema"
    /\ UNCHANGED <<entry, fs, stat, outcome>>

\* The schema fetch, as user 'nobody', and what follows it up to the row fetch.
KvFetchSchema ==
    /\ pc = "kv_schema"
    /\ \E status \in Statuses, content \in SchemaContents :
         LET req == [endpoint |-> "config", user |-> <<"nobody">>, status |-> status]
             l0  == [locals EXCEPT !.requests = Append(@, req)]
         IN
         IF SchemaRejected(status)
         THEN /\ locals' = l0
              /\ outcome' = PermissionDenied
              /\ pc' = "done"
         ELSE IF ~content.ok
         THEN /\ locals' = l0
              /\ outcome' = BadDocument
              /\ pc' = "done"
         ELSE /\ locals' = [l0 EXCEPT !.fields = FieldList(content.doc),
                                      !.lookup_contents = <<FieldList(content.doc)>>]
              /\ outcome' = outcome
              /\ pc' = "kv_rows"
    /\ UNCHANGED <<args, entry, fs, stat>>

\* The row fetch, as the owner, and the parse of its document.
KvFetchRows ==
    /\ pc = "kv_rows"
    /\ \E status \in Statuses, content \in RowsContents :
         LET req == [endpoint |-> "data", user |-> locals.owner, status |-> status]
             l0  == [locals EXCEPT !.requests = Append(@, req)]
         IN
         IF RowsRejected(status)
         THEN /\ locals' = l0
              /\ outcome' = PermissionDenied
              /\ pc' = "done"
         ELSE IF ~content.ok
         THEN /\ locals' = l0
              /\ outcome' = BadDocument
              /\ pc' = "done"
         ELSE /\ locals' = [l0 EXCEPT !.records = content.doc, !.rows = content.doc]
              /\ outcome' = outcome
              /\ pc' = "kv_project"
    /\ UNCHANGED <<args, entry, fs, stat>>

\* One turn of the loop over rows.
KvProjectRow ==
    /\ pc = "kv_project"
    /\ locals.rows # <<>>
    /\ LET flattened_row == FlattenDict(Head(locals.rows), locals.fields) IN
         locals' = [locals EXCEPT
                      !.lookup_contents = Append(@, NewRow(flattened_row, locals.fields)),
                      !.rows = Tail(@)]
    /\ UNCHANGED <<pc, args, entry, fs, stat, outcome>>

\* return lookup_contents
KvReturn ==
    /\ pc = "kv_project"
    /\ locals.rows = <<>>
    /\ outcome' = [kind |-> "return", exc |-> "", value |-> locals.lookup_contents]
    /\ pc' = "done"
    /\ UNCHANGED <<args, entry, fs, stat, locals>>

NextKv == KvCall \/ KvFetchSchema \/ KvFetchRows \/ KvProjectRow \/ KvReturn

SpecKv == Init /\ [][NextKv]_vars

(*********************** force_lookup_replication ***************************)

NoConfRepo == "No local ConfRepo registered"

NoLookupFile == "Could not find lookup_table_file"

\* phrase in content, the content being a sequence of phrases.
Contains(content, phrase) == \E i \in DOMAIN content : content[i] = phrase

\* The analysis without the branch for the other non-200 statuses.
ReplicationOk_No200Test(status, content) ==
    IF status = 400 THEN Contains(content, NoConfRepo)
    ELSE TRUE

\* The analysis taking the missing lookup for success as well.
ReplicationOk_AnyKnown400(status, content) ==
    IF status = 400
    THEN Contains(content, NoConfRepo) \/ Contains(content, NoLookupFile)
    ELSE status = 200

\* The analysis of the response: the first element of the returned triple.
ReplicationOk(status, content) ==
    IF status = 400 THEN
        IF Contains(content, NoConfRepo) THEN TRUE
        ELSE IF Contains(content, NoLookupFile) THEN FALSE
        ELSE FALSE
    ELSE IF status # 200 THEN FALSE
    ELSE TRUE

ReplicationEndpoint == <<"services", "replication", "configuration", "lookup-update-notify">>

ReplStatuses == {200, 201, 400, 404, 500}

BodyPhrases == {NoConfRepo, NoLookupFile, "other"}

Bodies == UNION {[1..k -> BodyPhrases] : k \in 0..MaxBodyLen}

\* A caller invokes force_lookup_replication.
ReplCall ==
    /\ pc = "idle"
    /\ \E f \in {<<"f">>, <<"d", "f">>}, b \in {None, <<"https://remote">>} :
         args' = [op |-> "force_lookup_replication", app |-> <<"n">>,
                  filename |-> f, base_uri |-> b]
    /\ pc' = "replicate"
    /\ UNCHANGED <<entry, fs, stat, locals, outcome>>

\* The body of force_lookup_replication: the POST and the analysis of the
\* response the server gives.
ReplRun ==
    /\ pc = "replicate"
    /\ \E status \in ReplStatuses, content \in Bodies :
         /\ locals' = [repl_uri |-> IF args.base_uri # None
                                    THEN args.base_uri \o ReplicationEndpoint
                                    ELSE ReplicationEndpoint,
                       payload |-> [app |-> args.app,
                                    filename |-> Basename(args.filename),
                                    user |-> <<"nobody">>],
                       response |-> [status |-> status, content |-> content]]
         /\ outcome' = [kind |-> "return", exc |-> "",
                        value |-> <<ReplicationOk(status, content), status, content>>]
    /\ pc' = "done"
    /\ UNCHANGED <<args, entry, fs, stat>>

NextRepl == ReplCall \/ ReplRun

SpecRepl == Init /\ [][NextRepl]_vars

(******************* claims on resolve_lookup_filename **********************)

Resolved == pc = "done" /\ args.op = "resolve_lookup_filename"

ResolvedFound == Resolved /\ entry.found

\* A component is safe when it holds no separator and is not the parent directory.
SafeComponent(c) == c = None \/ (Len(c) = 1 /\ c[1] # "..")

\* The default template as its path template spells it, nothing collapsed.
TemplateAsWritten(id, user) ==
    IF user
    THEN <<Home, "etc", "users", id[3][1], id[2][1], "lookups", id[1][1] \o ".default">>
    ELSE <<Home, "etc", "apps", id[2][1], "lookups", id[1][1] \o ".default">>

\* C1: after sanitising, the components the metadata id is built from hold no
\* path separator and no parent-directory segment, and the default template
\* built from them lies where its path template puts it.
C1_NoParentSegmentSurvives ==
    Resolved =>
        /\ \A i \in 1..3 : SafeComponent(locals.id[i])
        /\ locals.lookup_path_default # None =>
             locals.lookup_path_default
               \in {TemplateAsWritten(locals.id, FALSE)}
                   \cup (IF locals.id[3] = None THEN {}
                         ELSE {TemplateAsWritten(locals.id, TRUE)})

\* p is an entry strictly inside directory d.
InsideDir(p, d) == Len(p) > Len(d) /\ SubSeq(p, 1, Len(d)) = d

\* C2: for a resolvable identity and any non-null version token the computed
\* path is an entry inside the identity's backup directory.
C2_VersionedPathInsideBackupDir ==
    (ResolvedFound /\ args.version # None) =>
        /\ outcome.kind = "return"
        /\ InsideDir(locals.lookup_path, locals.backup_dir)
        /\ locals.lookup_path # entry.path

\* The call returned the default template in place of the lookup path.
ReturnedDefault ==
    /\ ResolvedFound
    /\ outcome.kind = "return"
    /\ outcome.value = locals.lookup_path_default
    /\ outcome.value # locals.lookup_path

\* The snapshot file a versioned request names.
SnapshotPath == MakeSplunkhomePath(<<locals.backup_dir, args.version>>).path

\* C3 as stated: the default template is returned only if neither the
\* requested snapshot nor the live file exists.
C3_DefaultOnlyIfNoSnapshotAndNoLive ==
    ReturnedDefault =>
        /\ entry.path \notin fs
        /\ args.version # None => SnapshotPath \notin fs

\* C3 as amended: the default template is returned only if the fallback was
\* asked for, the default exists and the path the request names (the snapshot
\* of a versioned request, the live file of an unversioned one) is missing.
C3_DefaultOnlyIfRequestedPathMissing ==
    ReturnedDefault =>
        /\ args.get_default_csv
        /\ locals.lookup_path_default \in fs
        /\ IF args.version # None THEN SnapshotPath \notin fs
           ELSE entry.path \notin fs

C3_Witness ==
    /\ ReturnedDefault
    /\ args.version # None
    /\ SnapshotPath \notin fs
    /\ entry.path \in fs

\* The fallback condition of an unversioned request.
FallbackApplies ==
    /\ args.get_default_csv
    /\ entry.path \notin fs
    /\ locals.lookup_path_default \in fs

\* C4: an unversioned request on a resolvable identity returns the default
\* template exactly when the fallback is requested, the live path is missing
\* and the default exists, and the collaborator's live path otherwise.
C4_UnversionedFallback ==
    (ResolvedFound /\ args.version = None) =>
        /\ outcome.kind = "return"
        /\ (outcome.value = locals.lookup_path_default) <=> FallbackApplies
        /\ ~FallbackApplies => outcome.value = entry.path

C4_Witness ==
    /\ ResolvedFound /\ args.version = None
    /\ FallbackApplies
    /\ outcome.value = locals.lookup_path_default
    /\ outcome.value # entry.path

\* C5: an identity the collaborator does not know raises ResourceNotFound when
\* throw_not_found is set and returns None otherwise, with no backup-directory
\* lookup and no existence probe; a resolved identity never returns None.
C5_NotFoundHandling ==
    /\ (Resolved /\ ~entry.found) =>
          /\ args.throw_not_found =>
               (outcome.kind = "raise" /\ outcome.exc = "ResourceNotFound")
          /\ ~args.throw_not_found =>
               (outcome.kind = "return" /\ outcome.value = None)
          /\ locals.backup_calls = 0
          /\ locals.probed = <<>>
    /\ (ResolvedFound /\ outcome.kind = "return") => outcome.value # None

C5_Witness ==
    /\ Resolved /\ ~entry.found /\ ~args.throw_not_found
    /\ outcome.kind = "return" /\ outcome.value = None

\* C10 as stated: the default template is the per-user one whenever an owner
\* is present and the per-app one otherwise, with or without a version.
C10_TemplateByOwnerPresence ==
    (ResolvedFound /\ outcome.kind = "return") =>
        locals.lookup_path_default = TemplateAsWritten(locals.id, args.owner # None)

\* C10 as amended: the per-user template is chosen when an owner is present
\* and either a version is given or the owner is not 'nobody'; the per-app
\* template otherwise.
C10_TemplateByOwnerVersionAndNobody ==
    (ResolvedFound /\ outcome.kind = "return") =>
        locals.lookup_path_default =
            TemplateAsWritten(locals.id,
                              /\ args.owner # None
                              /\ (args.version # None \/ args.owner # <<"nobody">>))

C10_Witness ==
    /\ ResolvedFound /\ outcome.kind = "return"
    /\ args.owner = <<"nobody">> /\ args.version # None
    /\ locals.lookup_path_default =
         <<Home, "etc", "users", "nobody", "n", "lookups", "f.default">>

(************************* claims on get_lookup *****************************)

\* get_lookup has run and its resolution yielded a path.
LookupResolved ==
    pc = "done" /\ args.op = "get_lookup" /\ locals.file_path # None

TooBigRaised ==
    outcome.kind = "raise" /\ outcome.exc = "LookupFileTooBigException"

\* C9: get_lookup raises the too-large error, carrying the measured size,
\* exactly when the guard was requested, the size probe succeeded and the size
\* exceeds the maximum; otherwise it goes on to open the resolved file, a
\* failed probe included.
C9_TooBigExactlyWhenGuardedAndMeasured ==
    LookupResolved =>
        /\ TooBigRaised <=>
             (/\ args.throw_exception_if_too_big
              /\ ~stat.error
              /\ stat.size > MAXIMUM_EDITABLE_SIZE)
        /\ TooBigRaised => outcome.value = stat.size
        /\ ~TooBigRaised => locals.opened = locals.file_path

C9_Witness ==
    /\ LookupResolved
    /\ TooBigRaised
    /\ outcome.value = MAXIMUM_EDITABLE_SIZE + 1

\* The probe failed under the guard and the file was opened all the same.
C9_WitnessProbeFailure ==
    /\ LookupResolved
    /\ args.throw_exception_if_too_big /\ stat.error
    /\ locals.size_error_logged
    /\ locals.opened = locals.file_path

(************************ claims on get_kv_lookup ***************************)

KvRunning == args.op = "get_kv_lookup"

\* The rejected fetches of the call, by endpoint.
RejectedFetch(endpoint) ==
    \E i \in DOMAIN locals.requests :
        locals.requests[i].endpoint = endpoint /\ locals.requests[i].status = 403

\* C6: a 403 on the schema fetch or on the row fetch ends get_kv_lookup with
\* PermissionDenied and no table; after a rejected schema fetch no row fetch
\* is issued, after a rejected row fetch no row is projected.
C6_RejectedFetchAborts ==
    KvRunning =>
        /\ (RejectedFetch("config") \/ RejectedFetch("data")) =>
              /\ pc = "done"
              /\ outcome = PermissionDenied
        /\ RejectedFetch("config") => Len(locals.requests) = 1
        /\ RejectedFetch("data") => Len(locals.lookup_contents) = 1

C6_Witness ==
    /\ KvRunning
    /\ RejectedFetch("data")
    /\ outcome.exc = "PermissionDeniedException"

\* C7: the table a successful get_kv_lookup returns has the field list as row
\* 0, and row r holds, cell by cell, the flattened record r's value for the
\* field of that position, or the empty string for a field it lacks; every
\* row is as wide as the field list.
C7_RowsAlignedWithFields ==
    (KvRunning /\ outcome.kind = "return") =>
        LET table == outcome.value
            fields == table[1]
        IN /\ fields = locals.fields
           /\ Len(table) = 1 + Len(locals.records)
           /\ \A r \in DOMAIN locals.records :
                LET flattened == FlattenDict(locals.records[r], fields) IN
                /\ Len(table[r + 1]) = Len(fields)
                /\ \A i \in DOMAIN fields :
                     table[r + 1][i] =
                        IF fields[i] \in DOMAIN flattened
                        THEN flattened[fields[i]]
                        ELSE ""

\* A returned table of three columns with a row padded for a missing field
\* and a row taken from a record with fields outside the field list.
C7_Witness ==
    /\ KvRunning /\ outcome.kind = "return"
    /\ Len(outcome.value) = 3
    /\ outcome.value[1] = <<<<"_key">>, <<"a">>, <<"b", "c">>>>
    /\ outcome.value[2] = <<"k2", "", "2">>
    /\ outcome.value[3] = <<"", "4", "">>

(******************* claims on force_lookup_replication *********************)

Replicated == pc = "done" /\ args.op = "force_lookup_replication"

ReplResponse == locals.response

\* C8 as stated: the triple holds the status and body as received, and ok is
\* true for a 200 and for a 400 naming the missing ConfRepo, false for a 400
\* naming the missing lookup file and for everything else.
C8_ReplicationResult ==
    Replicated =>
        LET st == ReplResponse.status
            body == ReplResponse.content
            ok == outcome.value[1]
        IN /\ outcome.kind = "return"
           /\ outcome.value[2] = st /\ outcome.value[3] = body
           /\ st = 200 => ok
           /\ (st = 400 /\ Contains(body, NoConfRepo)) => ok
           /\ (st = 400 /\ Contains(body, NoLookupFile)) => ~ok
           /\ (st = 400 /\ ~Contains(body, NoConfRepo)) => ~ok
           /\ st \notin {200, 400} => ~ok

\* C8 as amended: a 400 naming the missing lookup file yields false unless
\* the body also names the missing ConfRepo, which is tested first.
C8_ReplicationResultConfRepoFirst ==
    Replicated =>
        LET st == ReplResponse.status
            body == ReplResponse.content
            ok == outcome.value[1]
        IN /\ outcome.kind = "return"
           /\ outcome.value[2] = st /\ outcome.value[3] = body
           /\ st = 200 => ok
           /\ (st = 400 /\ Contains(body, NoConfRepo)) => ok
           /\ (st = 400 /\ Contains(body, NoLookupFile)
                 /\ ~Contains(body, NoConfRepo)) => ~ok
           /\ (st = 400 /\ ~Contains(body, NoConfRepo)) => ~ok
           /\ st \notin {200, 400} => ~ok

C8_Witness ==
    /\ Replicated
    /\ ReplResponse.status = 400
    /\ Contains(ReplResponse.content, NoLookupFile)
    /\ ~Contains(ReplResponse.content, NoConfRepo)
    /\ outcome.value = <<FALSE, 400, ReplResponse.content>>

====
